---------------------------- MODULE Spec2Model ----------------------------
(***************************************************************************)
(* A model of eeSAR's Sentinel-1 collection builder,                       *)
(* eeSAR/s1/s1_collection.py: create(), and of the part of                 *)
(* eeSAR/misc/_slope_correction.py: correct() that decides whether the     *)
(* terrain-flattening step can be built.                                   *)
(*                                                                         *)
(* create() is one function.  The model follows its control flow: the      *)
(* defaulting of the date range, the filtered collection, the two map()    *)
(* calls (map() runs its callback locally, once, on a placeholder image,   *)
(* so pre_process builds its step list and reduces over it while create()  *)
(* runs), and the outlier branch that produces the return value.  Remote   *)
(* handles are modelled by what the local code decides about them: the     *)
(* chain of calls made on the collection, the band names of the image      *)
(* that is threaded through the steps, and the band names a step selects.  *)
(***************************************************************************)
EXTENDS Integers, Sequences, FiniteSets

VARIABLES
    pc,                     \* position inside create()
    given_start_date,       \* the start_date argument as the caller passed it
    given_end_date,         \* the end_date argument as the caller passed it
    start_date,             \* the local start_date (rebound at line 90)
    end_date,               \* the local end_date (rebound at line 93)
    target_date,
    add_ratio,
    add_ND_ratio,
    speckle_filter,
    radiometric_correction,
    model,                  \* slope_correction_dict['model']
    outlier_removal,
    db,
    collection,             \* the remote collection handle built so far
    steps,                  \* pre_process: the list of steps
    acc,                    \* reduce: the accumulator image
    result                  \* what create() returns

vars == <<pc, given_start_date, given_end_date, start_date, end_date,
          target_date, add_ratio, add_ND_ratio, speckle_filter,
          radiometric_correction, model, outlier_removal, db,
          collection, steps, acc, result>>

config == <<given_start_date, given_end_date, target_date, add_ratio,
            add_ND_ratio, speckle_filter, radiometric_correction, model,
            outlier_removal, db>>

-----------------------------------------------------------------------------
(* Bounds *)

\* Dates are drawn from the days 0 .. MaxDay after the unix epoch.
MaxDay == 1

-----------------------------------------------------------------------------
(* Date values *)

None == [kind |-> "None", value |-> 0]

\* A yyyy-mm-dd string or a python datetime on day d; a millis timestamp holds
\* the milliseconds since the epoch, so the timestamp of day 0 is the int 0.
StrDate(d) == [kind |-> "str", value |-> d]
DateTime(d) == [kind |-> "datetime", value |-> d]
Millis(d) == [kind |-> "millis", value |-> d * 86400000]

DayRange == 0 .. MaxDay

\* What the docstring allows for start_date and end_date.
BoundDates ==
    {None} \cup {StrDate(d) : d \in DayRange}
           \cup {DateTime(d) : d \in DayRange}
           \cup {Millis(d) : d \in DayRange}

\* target_date: a date string or a datetime (the docstring names no
\* timestamp form for it).
TargetDates ==
    {None} \cup {StrDate(d) : d \in DayRange}
           \cup {DateTime(d) : d \in DayRange}

\* Python truth value of an argument: None and the int 0 are false, a
\* non-empty string and a datetime are true.
Truthy(x) ==
    CASE x.kind = "None" -> FALSE
      [] x.kind = "millis" -> x.value /= 0
      [] OTHER -> TRUE

\* days = 366 / 2
\* (DaysMutant: the half of a 365-day year, a variant for mutation checks.)
DaysMutant == 365 \div 2
Days == 366 \div 2

\* dates.subtract_days / dates.add_days (eeSAR/misc/dates.py): the date that
\* lies the given number of days before / after a date.
subtract_days(date, days) == DateTime(date.value - days)
add_days(date, days) == DateTime(date.value + days)

\* Lines 89-90.
DefaultStart(target, start) ==
    IF Truthy(target) /\ ~Truthy(start)
    THEN subtract_days(target, Days) ELSE start

\* Lines 92-93.
DefaultEnd(target, end) ==
    IF Truthy(target) /\ ~Truthy(end)
    THEN add_days(target, Days) ELSE end

-----------------------------------------------------------------------------
(* The collection handle *)

\* Lines 248-259: the chain of filters on COPERNICUS/S1_GRD_FLOAT.
FilteredCollection(start, end) ==
    [filter_start |-> start,
     filter_end |-> end,
     calls |-> <<"filterBounds", "filterDate", "filterMetadata",
                 "filter_instrumentMode", "filter_polarisation",
                 "filter_orbits">>,
     std_devs_x10 |-> 0]

NoCollection == [filter_start |-> None, filter_end |-> None,
                 calls |-> <<>>, std_devs_x10 |-> 0]

\* collection.map(f)
Map(c, f) == [c EXCEPT !.calls = Append(@, f)]

\* Lines 232-246: mask_outliers(collection, std_devs) selects VV and VH of
\* every image and masks what lies further than std_devs standard deviations
\* from the median.  The threshold is kept in tenths (2.6 is 26).
mask_outliers(c, std_devs_x10) ==
    [c EXCEPT !.calls = Append(@, "mask_outliers"),
              !.std_devs_x10 = std_devs_x10]

\* Lines 263-268.
\* (create_return_Mutant: the two thresholds swapped.)
create_return_Mutant(c, outlier) ==
    IF outlier = "MODERATE" THEN mask_outliers(c, 26)
    ELSE IF outlier = "AGGRESSIVE" THEN mask_outliers(c, 30)
    ELSE c
create_return(c, outlier) ==
    IF outlier = "MODERATE" THEN mask_outliers(c, 30)
    ELSE IF outlier = "AGGRESSIVE" THEN mask_outliers(c, 26)
    ELSE c

-----------------------------------------------------------------------------
(* pre_process: the step list *)

\* Lines 204-209.
SpeckleSteps(sf) ==
    IF sf = "BOXCAR" THEN <<"boxcar_filter">>
    ELSE IF sf = "REFINED_LEE" THEN <<"_refined_lee.apply">>
    ELSE IF sf = "QUEGAN" THEN <<"quegan">>
    ELSE <<>>

\* Lines 210-214.
\* (RadiometricSteps_Mutant: the two TERRAIN appends swapped.)
RadiometricSteps_Mutant(rc) ==
    IF rc = "ELLIPSOID" THEN <<"to_gamma0">>
    ELSE IF rc = "TERRAIN" THEN <<"mask_overlay", "terrain_flattening">>
    ELSE <<>>
RadiometricSteps(rc) ==
    IF rc = "ELLIPSOID" THEN <<"to_gamma0">>
    ELSE IF rc = "TERRAIN" THEN <<"terrain_flattening", "mask_overlay">>
    ELSE <<>>

\* Lines 215-220.
\* (BandSteps_Mutant: the ND-ratio step tested on add_ratio.)
BandSteps_Mutant(target, ratio, nd_ratio) ==
    (IF Truthy(target) THEN <<"add_date_bands">> ELSE <<>>)
    \o (IF ratio THEN <<"add_ratio_band">> ELSE <<>>)
    \o (IF ratio THEN <<"add_ND_ratio_band">> ELSE <<>>)
BandSteps(target, ratio, nd_ratio) ==
    (IF Truthy(target) THEN <<"add_date_bands">> ELSE <<>>)
    \o (IF ratio THEN <<"add_ratio_band">> ELSE <<>>)
    \o (IF nd_ratio THEN <<"add_ND_ratio_band">> ELSE <<>>)

\* Lines 221-222.
SnicSteps(sf) == IF sf = "SNC" THEN <<"snic_filter">> ELSE <<>>

\* Lines 223-224.
DbSteps(to_db) == IF to_db THEN <<"toDb">> ELSE <<>>

\* Lines 202-226: the list pre_process builds, in the order of its appends.
\* (pre_process_steps_Mutant: the SNIC test moved up to the other filters.)
pre_process_steps_Mutant(sf, rc, target, ratio, nd_ratio, to_db) ==
    SpeckleSteps(sf)
    \o SnicSteps(sf)
    \o RadiometricSteps(rc)
    \o BandSteps(target, ratio, nd_ratio)
    \o DbSteps(to_db)
    \o <<"mask_borders">>
pre_process_steps(sf, rc, target, ratio, nd_ratio, to_db) ==
    SpeckleSteps(sf)
    \o RadiometricSteps(rc)
    \o BandSteps(target, ratio, nd_ratio)
    \o SnicSteps(sf)
    \o DbSteps(to_db)
    \o <<"mask_borders">>

-----------------------------------------------------------------------------
(* The steps: the bands each selects by name and the bands of its output *)

\* The bands of a COPERNICUS/S1_GRD_FLOAT image that passed the VV and VH
\* polarisation filters (docstring, lines 76-79).
SourceBands == {"VV", "VH", "angle"}

\* Lines 61-88: _masking returns the bands layover, shadow and no_data_mask
\* (the buffer erodes the masks and renames nothing).
MaskingBands == {"layover", "shadow", "no_data_mask"}

\* _slope_correction.correct, lines 137-141: the two independent ifs that
\* bind scf; with any other model name the local stays unbound.
ScfBound(m) == m = "volume" \/ m = "surface"

\* _slope_correction.correct, lines 144-153: the bands of the image returned.
CorrectBands == {"VV", "VH", "angle", "LIA"} \cup MaskingBands

\* _refined_lee.apply (eeSAR/misc/_refined_lee.py): the filter works on the
\* two polarisation bands and hands the image back under the same band names.
refined_lee_selects == {"VV", "VH"}
refined_lee_bands(bands) == bands

\* The bands a step selects by name from the image it is given.
Selects(step) ==
    CASE step = "boxcar_filter" -> {"VV", "VH"}
      [] step = "_refined_lee.apply" -> refined_lee_selects
      [] step = "quegan" -> {}
      [] step = "to_gamma0" -> {"VV", "VH", "angle"}
      [] step = "terrain_flattening" -> {"VV", "VH", "angle"}
      [] step = "mask_overlay" -> {"layover", "shadow"}
      [] step = "add_date_bands" -> {}
      [] step = "add_ratio_band" -> {"VV", "VH"}
      [] step = "add_ND_ratio_band" -> {"VV", "VH"}
      [] step = "snic_filter" -> {"VV", "VH", "VVVH_ratio", "VVVH_ND_ratio"}
      [] step = "toDb" -> {"VV", "VH"}
      [] step = "mask_borders" -> {"VV", "angle"}
      [] OTHER -> {}

\* The bands of a step's output, given the bands of its input.
OutputBands(step, bands) ==
    CASE step = "terrain_flattening" -> CorrectBands
      [] step = "add_date_bands" ->
            bands \cup {"dayOfYear", "daysFromTarget", "quality",
                        "unixTimeDays"}
      [] step = "add_ratio_band" -> bands \cup {"VVVH_ratio"}
      [] step = "add_ND_ratio_band" -> bands \cup {"VVVH_ND_ratio"}
      [] step = "_refined_lee.apply" -> refined_lee_bands(bands)
      [] OTHER -> bands

\* Whether building the step's expression raises locally: gamma0.divide(scf)
\* at line 144 of _slope_correction.py reads scf, an UnboundLocalError when
\* neither if bound it.
Raises(step, m) == step = "terrain_flattening" /\ ~ScfBound(m)

\* The image pre_process is called with.
SourceImage == [bands |-> SourceBands, applied |-> <<>>, missing |-> {}]

\* process(acc): one application of a step in the reduce of line 230.
Process(step, image) ==
    [bands |-> OutputBands(step, image.bands),
     applied |-> Append(image.applied, step),
     missing |-> image.missing \cup (Selects(step) \ image.bands)]

\* Line 230: reduce takes the steps from the left; the next one is the one
\* after those already applied.
NextStepIndex(image) == Len(image.applied) + 1

-----------------------------------------------------------------------------
(* The arguments *)

SpeckleFilters == {"NONE", "BOXCAR", "SNIC", "REFINED_LEE", "QUEGAN"}
RadiometricCorrections == {"NONE", "ELLIPSOID", "TERRAIN"}
OutlierRemovals == {"NONE", "MODERATE", "AGGRESSIVE"}
Models == {"volume", "surface"}

\* Values outside the documented names that a caller can pass just as well.
SpeckleFilterArgs == SpeckleFilters \cup {"SNC", "LEE"}
RadiometricCorrectionArgs == RadiometricCorrections \cup {"GAMMA0"}
OutlierRemovalArgs == OutlierRemovals \cup {"STRICT"}
ModelArgs == Models \cup {"direct"}

InitLocals ==
    /\ pc = "entry"
    /\ start_date = given_start_date
    /\ end_date = given_end_date
    /\ collection = NoCollection
    /\ steps = <<>>
    /\ acc = SourceImage
    /\ result = NoCollection

\* A call of create() with every combination of the configuration choices.
\* InitDates draws the date bounds from all their forms.
Init ==
    /\ given_start_date \in {None, Millis(0)}
    /\ given_end_date \in {None, StrDate(MaxDay)}
    /\ target_date \in {None, StrDate(MaxDay)}
    /\ add_ratio \in BOOLEAN
    /\ add_ND_ratio \in BOOLEAN
    /\ speckle_filter \in SpeckleFilterArgs
    /\ radiometric_correction \in RadiometricCorrectionArgs
    /\ model \in ModelArgs
    /\ outlier_removal \in OutlierRemovalArgs
    /\ db \in BOOLEAN
    /\ InitLocals

\* A call of create() with every combination of the three date arguments and
\* the signature's defaults for the rest (lines 17-26).
InitDates ==
    /\ given_start_date \in BoundDates
    /\ given_end_date \in BoundDates
    /\ target_date \in TargetDates
    /\ add_ratio = TRUE
    /\ add_ND_ratio = TRUE
    /\ speckle_filter = "NONE"
    /\ radiometric_correction = "ELLIPSOID"
    /\ model = "volume"
    /\ outlier_removal = "NONE"
    /\ db = TRUE
    /\ InitLocals

-----------------------------------------------------------------------------
(* The steps of create() *)

\* Lines 88-93.
DefaultDates ==
    /\ pc = "entry"
    /\ start_date' = DefaultStart(target_date, start_date)
    /\ end_date' = DefaultEnd(target_date, end_date)
    /\ pc' = "defaulted"
    /\ UNCHANGED <<config, collection, steps, acc, result>>

\* Lines 248-259.
FilterCollection ==
    /\ pc = "defaulted"
    /\ collection' = FilteredCollection(start_date, end_date)
    /\ pc' = "filtered"
    /\ UNCHANGED <<config, start_date, end_date, steps, acc, result>>

\* Line 260.
MapSetResample ==
    /\ pc = "filtered"
    /\ collection' = Map(collection, "set_resample")
    /\ pc' = "resampled"
    /\ UNCHANGED <<config, start_date, end_date, steps, acc, result>>

\* Line 261 calls pre_process; lines 202-226 build its step list.
PreProcessBuild ==
    /\ pc = "resampled"
    /\ steps' = pre_process_steps(speckle_filter, radiometric_correction,
                                  target_date, add_ratio, add_ND_ratio, db)
    /\ acc' = SourceImage
    /\ pc' = "reduce"
    /\ UNCHANGED <<config, start_date, end_date, collection, result>>

\* Line 230: one turn of reduce.  A step that raises ends create().
ReduceStep ==
    /\ pc = "reduce"
    /\ NextStepIndex(acc) \in 1 .. Len(steps)
    /\ LET step == steps[NextStepIndex(acc)] IN
          IF Raises(step, model)
          THEN /\ pc' = "error"
               /\ acc' = acc
          ELSE /\ pc' = "reduce"
               /\ acc' = Process(step, acc)
    /\ UNCHANGED <<config, start_date, end_date, collection, steps, result>>

\* Lines 230 and 261: reduce is through, pre_process returns and the map
\* call is chained onto the collection.
MapPreProcess ==
    /\ pc = "reduce"
    /\ NextStepIndex(acc) > Len(steps)
    /\ collection' = Map(collection, "pre_process")
    /\ pc' = "mapped"
    /\ UNCHANGED <<config, start_date, end_date, steps, acc, result>>

\* Lines 263-268.
Return ==
    /\ pc = "mapped"
    /\ result' = create_return(collection, outlier_removal)
    /\ pc' = "done"
    /\ UNCHANGED <<config, start_date, end_date, collection, steps, acc>>

Next ==
    \/ DefaultDates
    \/ FilterCollection
    \/ MapSetResample
    \/ PreProcessBuild
    \/ ReduceStep
    \/ MapPreProcess
    \/ Return

Spec == Init /\ [][Next]_vars

\* The date range alone: the defaulting and the filter it feeds.
NextDates ==
    \/ DefaultDates
    \/ FilterCollection

SpecDates == InitDates /\ [][NextDates]_vars

-----------------------------------------------------------------------------
(* Helpers of the properties *)

\* The positions of create() at which pre_process has built its step list.
Built == pc \in {"reduce", "error", "mapped", "done"}

Positions(seq, x) == {i \in 1 .. Len(seq) : seq[i] = x}
Count(seq, x) == Cardinality(Positions(seq, x))
Has(seq, x) == Positions(seq, x) /= {}
IsIn(x, S) == x \in S
Precedes(seq, x, y) ==
    \E i \in Positions(seq, x) : \A j \in Positions(seq, y) : i < j

SpeckleStepNames == {"boxcar_filter", "snic_filter", "_refined_lee.apply",
                     "quegan"}
RadiometricStepNames == {"to_gamma0", "terrain_flattening", "mask_overlay"}

SpeckleStepsOf(seq) == SelectSeq(seq, LAMBDA x : IsIn(x, SpeckleStepNames))
RadiometricStepsOf(seq) ==
    SelectSeq(seq, LAMBDA x : IsIn(x, RadiometricStepNames))

\* The speckle step the docstring (lines 45-50) promises for each name.
DocumentedSpeckleStep(sf) ==
    CASE sf = "BOXCAR" -> <<"boxcar_filter">>
      [] sf = "SNIC" -> <<"snic_filter">>
      [] sf = "REFINED_LEE" -> <<"_refined_lee.apply">>
      [] sf = "QUEGAN" -> <<"quegan">>
      [] OTHER -> <<>>

\* The place of each step in the one fixed order.
Rank(step) ==
    CASE step \in {"boxcar_filter", "_refined_lee.apply", "quegan"} -> 1
      [] step \in {"to_gamma0", "terrain_flattening"} -> 2
      [] step = "mask_overlay" -> 3
      [] step = "add_date_bands" -> 4
      [] step = "add_ratio_band" -> 5
      [] step = "add_ND_ratio_band" -> 6
      [] step = "snic_filter" -> 7
      [] step = "toDb" -> 8
      [] step = "mask_borders" -> 9
      [] OTHER -> 0

IsPrefix(s, t) == Len(s) <= Len(t) /\ s = SubSeq(t, 1, Len(s))

-----------------------------------------------------------------------------
(* Properties *)

\* C1: once the collection is filtered, a start left out with a target date
\* given is the target date minus 183 days, an end left out is the target
\* date plus 183 days; the two offsets are the same 183 days.
C1_TargetDateOffset ==
    pc = "filtered" /\ target_date /= None =>
        /\ given_start_date = None =>
              collection.filter_start = DateTime(target_date.value - 183)
        /\ given_end_date = None =>
              collection.filter_end = DateTime(target_date.value + 183)
        /\ given_start_date = None /\ given_end_date = None =>
              target_date.value - collection.filter_start.value
                  = collection.filter_end.value - target_date.value

C1_Witness ==
    /\ pc = "filtered"
    /\ target_date = StrDate(MaxDay)
    /\ given_start_date = None
    /\ given_end_date = None
    /\ collection.filter_start.value = MaxDay - 183
    /\ collection.filter_end.value = MaxDay + 183

\* C2: a start or end date the caller supplied, the timestamp 0 included,
\* reaches the date filter unchanged; each bound is defaulted on its own, and
\* without a target date neither is changed.
C2_SuppliedBoundsUnchanged ==
    pc = "filtered" =>
        /\ given_start_date /= None =>
              collection.filter_start = given_start_date
        /\ given_end_date /= None =>
              collection.filter_end = given_end_date
        /\ target_date = None =>
              /\ collection.filter_start = given_start_date
              /\ collection.filter_end = given_end_date

\* C3: for each documented speckle_filter name the step list holds exactly
\* the speckle step of that name and no other speckle step.
C3_SpeckleStepOfName ==
    Built /\ speckle_filter \in SpeckleFilters =>
        SpeckleStepsOf(steps) = DocumentedSpeckleStep(speckle_filter)

\* C4: NONE gives no radiometric step, ELLIPSOID gives to_gamma0 once and no
\* terrain step, TERRAIN gives terrain_flattening directly followed by
\* mask_overlay and no to_gamma0; mask_overlay never stands in a step list
\* without terrain_flattening directly before it.
C4_RadiometricSteps ==
    Built =>
        /\ radiometric_correction = "NONE" =>
              RadiometricStepsOf(steps) = <<>>
        /\ radiometric_correction = "ELLIPSOID" =>
              RadiometricStepsOf(steps) = <<"to_gamma0">>
        /\ radiometric_correction = "TERRAIN" =>
              /\ RadiometricStepsOf(steps)
                    = <<"terrain_flattening", "mask_overlay">>
              /\ \A i \in Positions(steps, "terrain_flattening") :
                    i < Len(steps) /\ steps[i + 1] = "mask_overlay"
        /\ \A j \in Positions(steps, "mask_overlay") :
              j > 1 /\ steps[j - 1] = "terrain_flattening"

C4_Witness ==
    /\ pc = "mapped"
    /\ radiometric_correction = "TERRAIN"
    /\ speckle_filter = "BOXCAR"
    /\ steps[2] = "terrain_flattening"
    /\ steps[3] = "mask_overlay"

\* C5: the collection create() returns carries an outlier mask exactly for
\* MODERATE (3 standard deviations) and AGGRESSIVE (2.6, the smaller
\* threshold); otherwise it is the pre-processed collection itself; the mask
\* comes after pre_process was mapped.
C5_OutlierMasking ==
    pc = "done" =>
        /\ Has(result.calls, "mask_outliers")
              <=> outlier_removal \in {"MODERATE", "AGGRESSIVE"}
        /\ outlier_removal = "MODERATE" => result.std_devs_x10 = 30
        /\ outlier_removal = "AGGRESSIVE" =>
              /\ result.std_devs_x10 = 26
              /\ result.std_devs_x10 < 30
        /\ outlier_removal = "NONE" => result = collection
        /\ Has(result.calls, "mask_outliers") =>
              /\ Count(result.calls, "mask_outliers") = 1
              /\ Precedes(result.calls, "pre_process", "mask_outliers")
        /\ Count(result.calls, "pre_process") = 1

C5_Witness ==
    /\ pc = "done"
    /\ outlier_removal = "AGGRESSIVE"
    /\ result.std_devs_x10 = 26
    /\ result.calls[Len(result.calls)] = "mask_outliers"
    /\ result.calls[Len(result.calls) - 1] = "pre_process"

\* C6: each optional band step is in the step list exactly when its own
\* flag is set, whatever the other choices, and at most once.
C6_OptionalBandSteps ==
    Built =>
        /\ Count(steps, "add_date_bands")
              = IF target_date /= None THEN 1 ELSE 0
        /\ Count(steps, "add_ratio_band") = IF add_ratio THEN 1 ELSE 0
        /\ Count(steps, "add_ND_ratio_band") = IF add_ND_ratio THEN 1 ELSE 0
        /\ Count(steps, "toDb") = IF db THEN 1 ELSE 0

C6_Witness ==
    /\ pc = "mapped"
    /\ target_date /= None
    /\ ~add_ratio
    /\ add_ND_ratio
    /\ ~db
    /\ speckle_filter = "SNC"
    /\ Has(steps, "add_date_bands")
    /\ Has(steps, "add_ND_ratio_band")
    /\ ~Has(steps, "add_ratio_band")
    /\ ~Has(steps, "toDb")

\* C7: the steps stand in one fixed order, mask_borders is there once and
\* last (so the list is never empty), and reduce applies them from the left,
\* each to the result of the one before.
C7_FixedOrder ==
    Built =>
        /\ Len(steps) >= 1
        /\ steps[Len(steps)] = "mask_borders"
        /\ Count(steps, "mask_borders") = 1
        /\ \A i, j \in 1 .. Len(steps) :
              i < j => Rank(steps[i]) >= 1 /\ Rank(steps[i]) < Rank(steps[j])
        /\ IsPrefix(acc.applied, steps)
        /\ pc \in {"mapped", "done"} => acc.applied = steps

C7_Witness ==
    /\ pc = "mapped"
    /\ speckle_filter = "SNC"
    /\ Len(steps) = 8
    /\ acc.applied = steps
    /\ steps[6] = "snic_filter"
    /\ steps[7] = "toDb"

\* C8: a speckle_filter, radiometric_correction or outlier_removal value
\* outside the documented names raises nothing locally and adds no speckle
\* step, no radiometric step and no outlier step: it is treated like NONE
\* and leaves the other steps as they are.
C8_UnknownNamesLikeNone ==
    /\ Built /\ speckle_filter \notin SpeckleFilters =>
          /\ SpeckleStepsOf(steps) = <<>>
          /\ steps = pre_process_steps("NONE", radiometric_correction,
                         target_date, add_ratio, add_ND_ratio, db)
    /\ Built /\ radiometric_correction \notin RadiometricCorrections =>
          /\ RadiometricStepsOf(steps) = <<>>
          /\ pc /= "error"
    /\ pc = "done" /\ outlier_removal \notin OutlierRemovals =>
          result = collection

\* C9: the terrain-flattening step is built for every model name: no value
\* of slope_correction_dict['model'] makes create() end in a local error.
C9_NoLocalErrorForAnyModel ==
    /\ pc /= "error"
    /\ Has(acc.applied, "terrain_flattening") => ScfBound(model)

\* C10: every band a step selects by name is there when the step runs;
\* snic_filter comes after both ratio steps whenever it is in the list, and
\* mask_overlay after terrain_flattening.
C10_BandsAvailable ==
    /\ acc.missing = {}
    /\ Built /\ Has(steps, "snic_filter") =>
          /\ Precedes(steps, "add_ratio_band", "snic_filter")
          /\ Precedes(steps, "add_ND_ratio_band", "snic_filter")
    /\ Built /\ Has(steps, "mask_overlay") =>
          Precedes(steps, "terrain_flattening", "mask_overlay")

=============================================================================
